---- MODULE Spec2Model ----
(***************************************************************************)
(* Fuel-sensor calibration viewer: DataUploader.tsx (file parsing, volume  *)
(* divider) and ChartPage.tsx (held data, sensor-code -> litres            *)
(* interpolation, statistics).                                             *)
(*                                                                         *)
(* Numbers.  A JavaScript number is modelled as an exact rational <<n, d>> *)
(* in lowest terms with d > 0, or as NaN == <<0, 0>>.  IEEE rounding is    *)
(* modelled for the interpolation alone (convertSensorCodeToLitersIEEE),   *)
(* where exact equality of computed volumes is at stake.  Strings are      *)
(* sequences of one-character strings.                                     *)
(***************************************************************************)
EXTENDS Integers, Sequences, FiniteSets, TLC

VARIABLES
    volumeDivider,      \* DataUploader state: the divider shown in the input field
    lastXmlData,        \* DataUploader state: the retained calibration document
    uploadStatus,       \* DataUploader state: the status line shown to the user
    calibrationData,    \* ChartPage state: the held calibration curve
    calibrationDate,    \* ChartPage state
    chartVolumeDivider, \* ChartPage state: the divider ChartPage holds
    rawData,            \* ChartPage state: the held raw samples
    readers             \* FileReaders whose read has not completed, in start order

vars == <<volumeDivider, lastXmlData, uploadStatus, calibrationData,
          calibrationDate, chartVolumeDivider, rawData, readers>>

----------------------------------------------------------------------------
(* JavaScript numbers *)

NaN == <<0, 0>>

IsNaN(a) == a[2] = 0

AbsInt(i) == IF i < 0 THEN -i ELSE i

RECURSIVE GCD(_, _)
GCD(a, b) == IF b = 0 THEN a ELSE GCD(b, a % b)

\* the rational n/d in lowest terms; x/0 can only arise here as 0/0, which is NaN
Rat(n, d) ==
    IF d = 0 THEN NaN
    ELSE LET g == GCD(AbsInt(n), AbsInt(d))
             s == IF d < 0 THEN -1 ELSE 1
         IN  <<(s * n) \div g, (s * d) \div g>>

Num(i) == <<i, 1>>

NumAdd(a, b) == IF IsNaN(a) \/ IsNaN(b) THEN NaN
                ELSE Rat(a[1] * b[2] + b[1] * a[2], a[2] * b[2])

NumSub(a, b) == IF IsNaN(a) \/ IsNaN(b) THEN NaN
                ELSE Rat(a[1] * b[2] - b[1] * a[2], a[2] * b[2])

NumMul(a, b) == IF IsNaN(a) \/ IsNaN(b) THEN NaN
                ELSE Rat(a[1] * b[1], a[2] * b[2])

NumDiv(a, b) == IF IsNaN(a) \/ IsNaN(b) THEN NaN
                ELSE Rat(a[1] * b[2], a[2] * b[1])

\* comparisons with NaN are false
NumLt(a, b) == ~IsNaN(a) /\ ~IsNaN(b) /\ a[1] * b[2] < b[1] * a[2]

NumLe(a, b) == ~IsNaN(a) /\ ~IsNaN(b) /\ a[1] * b[2] <= b[1] * a[2]

NumGe(a, b) == NumLe(b, a)

NumAbs(a) == <<AbsInt(a[1]), a[2]>>

\* x || fallback: NaN and 0 are falsy
OrElse(a, fallback) == IF IsNaN(a) \/ a[1] = 0 THEN fallback ELSE a

----------------------------------------------------------------------------
(* JavaScript numbers as IEEE 754 doubles *)

\* Natural numbers of any size: the digits in base 2^15, the lowest first, without
\* leading zero digit; <<>> is 0.
LBase == 32768

RECURSIVE Pow2(_)
Pow2(k) == IF k = 0 THEN 1 ELSE 2 * Pow2(k - 1)

RECURSIVE LNorm(_)
LNorm(a) == IF a # <<>> /\ a[Len(a)] = 0 THEN LNorm(SubSeq(a, 1, Len(a) - 1)) ELSE a

RECURSIVE LFromNat(_)
LFromNat(n) == IF n = 0 THEN <<>> ELSE <<n % LBase>> \o LFromNat(n \div LBase)

RECURSIVE LAddC(_, _, _)
LAddC(a, b, c) ==
    IF a = <<>> /\ b = <<>> THEN (IF c = 0 THEN <<>> ELSE <<c>>)
    ELSE LET x == IF a = <<>> THEN 0 ELSE Head(a)
             y == IF b = <<>> THEN 0 ELSE Head(b)
             s == x + y + c
         IN  <<s % LBase>> \o LAddC(IF a = <<>> THEN <<>> ELSE Tail(a),
                                    IF b = <<>> THEN <<>> ELSE Tail(b), s \div LBase)

LAdd(a, b) == LAddC(a, b, 0)

\* a - b for a >= b
RECURSIVE LSubB(_, _, _)
LSubB(a, b, borrow) ==
    IF a = <<>> THEN <<>>
    ELSE LET y == IF b = <<>> THEN 0 ELSE Head(b)
             d == Head(a) - y - borrow
         IN  <<d % LBase>> \o LSubB(Tail(a), IF b = <<>> THEN <<>> ELSE Tail(b),
                                    IF d < 0 THEN 1 ELSE 0)

LSub(a, b) == LNorm(LSubB(a, b, 0))

RECURSIVE LLessFrom(_, _, _)
LLessFrom(a, b, i) ==
    IF i = 0 THEN FALSE
    ELSE IF a[i] # b[i] THEN a[i] < b[i]
    ELSE LLessFrom(a, b, i - 1)

LLess(a, b) == IF Len(a) # Len(b) THEN Len(a) < Len(b) ELSE LLessFrom(a, b, Len(a))

\* a * k + c for a digit k
RECURSIVE LMulSmall(_, _, _)
LMulSmall(a, k, c) ==
    IF a = <<>> THEN (IF c = 0 THEN <<>> ELSE <<c>>)
    ELSE LET p == Head(a) * k + c
         IN  <<p % LBase>> \o LMulSmall(Tail(a), k, p \div LBase)

RECURSIVE LMul(_, _)
LMul(a, b) ==
    IF b = <<>> \/ a = <<>> THEN <<>>
    ELSE LET rest == LMul(a, Tail(b))
         IN  LAdd(LNorm(LMulSmall(a, Head(b), 0)),
                  IF rest = <<>> THEN <<>> ELSE <<0>> \o rest)

\* quotient and remainder of a by a digit k > 0, from the digit i of a downwards
RECURSIVE LDivSmallFrom(_, _, _, _, _)
LDivSmallFrom(a, k, i, q, r) ==
    IF i = 0 THEN [q |-> LNorm(q), r |-> r]
    ELSE LET cur == r * LBase + a[i]
         IN  LDivSmallFrom(a, k, i - 1, <<cur \div k>> \o q, cur % k)

LDivSmall(a, k) == LDivSmallFrom(a, k, Len(a), <<>>, 0)

\* a * 2^s, floor(a / 2^s), a mod 2^s
LShl(a, s) ==
    IF a = <<>> THEN <<>>
    ELSE [i \in 1..(s \div 15) |-> 0] \o LMulSmall(a, Pow2(s % 15), 0)

LShr(a, s) ==
    IF s \div 15 >= Len(a) THEN <<>>
    ELSE LDivSmall(SubSeq(a, s \div 15 + 1, Len(a)), Pow2(s % 15)).q

LLow(a, s) ==
    IF s \div 15 >= Len(a) THEN a
    ELSE LNorm(SubSeq(a, 1, s \div 15) \o <<a[s \div 15 + 1] % Pow2(s % 15)>>)

\* number of binary digits
RECURSIVE BitLen(_)
BitLen(n) == IF n = 0 THEN 0 ELSE 1 + BitLen(n \div 2)

LBitLen(a) == IF a = <<>> THEN 0 ELSE 15 * (Len(a) - 1) + BitLen(a[Len(a)])

\* long division by b # 0, one binary digit at a time: the digits j..1 of the
\* digit d of the dividend are brought down into the remainder r; q collects the
\* quotient digit
RECURSIVE LDivBits(_, _, _, _, _)
LDivBits(d, b, j, q, r) ==
    IF j = 0 THEN [q |-> q, r |-> r]
    ELSE LET bit == (d \div Pow2(j - 1)) % 2
             r2  == LNorm(LAddC(r, r, bit))
         IN  IF LLess(r2, b) THEN LDivBits(d, b, j - 1, 2 * q, r2)
             ELSE LDivBits(d, b, j - 1, 2 * q + 1, LSub(r2, b))

RECURSIVE LDivFrom(_, _, _, _, _)
LDivFrom(a, b, i, q, r) ==
    IF i = 0 THEN [q |-> LNorm(q), r |-> r]
    ELSE LET step == LDivBits(a[i], b, 15, 0, r)
         IN  LDivFrom(a, b, i - 1, <<step.q>> \o q, step.r)

LDivMod(a, b) == LDivFrom(a, b, Len(a), <<>>, <<>>)

\* A JavaScript number as the IEEE 754 double it is: (-1)^neg * m * 2^e with
\* m < 2^53 odd, or 0, or NaN.  Every operation rounds its exact result to the
\* nearest double, ties to even.  The exponent range is not modelled (no
\* overflow, no subnormal numbers) and the sign of zero is not kept.
DNaN == [nan |-> TRUE, neg |-> FALSE, m |-> <<>>, e |-> 0]

DZero == [nan |-> FALSE, neg |-> FALSE, m |-> <<>>, e |-> 0]

\* number of low binary zero digits of n > 0
RECURSIVE LowZeros(_)
LowZeros(n) == IF n % 2 = 0 THEN 1 + LowZeros(n \div 2) ELSE 0

RECURSIVE LLowZeros(_)
LLowZeros(m) == IF Head(m) = 0 THEN 15 + LLowZeros(Tail(m)) ELSE LowZeros(Head(m))

DCanon(neg, m, e) ==
    IF m = <<>> THEN DZero
    ELSE LET k == LLowZeros(m)
         IN  [nan |-> FALSE, neg |-> neg, m |-> LShr(m, k), e |-> e + k]

\* round m * 2^e (plus a non-zero rest below it if sticky) to 53 significant
\* binary digits, to nearest, ties to even
DRound(neg, m, e, sticky) ==
    IF LBitLen(m) <= 53 THEN DCanon(neg, m, e)
    ELSE LET d    == LBitLen(m) - 53
             q    == LShr(m, d)
             low  == LLow(m, d)
             half == LShl(<<1>>, d - 1)
             up   == \/ LLess(half, low)
                     \/ low = half /\ (sticky \/ Head(q) % 2 = 1)
         IN  DCanon(neg, IF up THEN LAdd(q, <<1>>) ELSE q, e + d)

DInt(i) == DCanon(i < 0, LFromNat(AbsInt(i)), 0)

DNeg(a) == IF a.nan \/ a.m = <<>> THEN a ELSE [a EXCEPT !.neg = ~a.neg]

DAbs(a) == [a EXCEPT !.neg = FALSE]

DAdd(a, b) ==
    IF a.nan \/ b.nan THEN DNaN
    ELSE LET e == IF a.e < b.e THEN a.e ELSE b.e
             x == LShl(a.m, a.e - e)
             y == LShl(b.m, b.e - e)
         IN  IF a.neg = b.neg THEN DRound(a.neg, LAdd(x, y), e, FALSE)
             ELSE IF LLess(x, y) THEN DRound(b.neg, LSub(y, x), e, FALSE)
             ELSE DRound(a.neg, LSub(x, y), e, FALSE)

DSub(a, b) == DAdd(a, DNeg(b))

DMul(a, b) ==
    IF a.nan \/ b.nan THEN DNaN
    ELSE DRound(a.neg # b.neg, LMul(a.m, b.m), a.e + b.e, FALSE)

\* a / b; x / 0 is NaN here (0 / 0 is NaN, the infinities are not modelled)
DDiv(a, b) ==
    IF a.nan \/ b.nan \/ b.m = <<>> THEN DNaN
    ELSE IF a.m = <<>> THEN DZero
    ELSE LET t  == IF 55 + LBitLen(b.m) > LBitLen(a.m)
                   THEN 55 + LBitLen(b.m) - LBitLen(a.m) ELSE 0
             dm == LDivMod(LShl(a.m, t), b.m)
         IN  DRound(a.neg # b.neg, dm.q, a.e - t - b.e, dm.r # <<>>)

\* the double the program holds where the model holds the rational n / d with n
\* and d integers below 2^53 in size: originalVolume / volumeDivider for an
\* integer divider, a parsed code
DoubleOf(a) == IF a[2] = 0 THEN DNaN ELSE DDiv(DInt(a[1]), DInt(a[2]))

----------------------------------------------------------------------------
(* JavaScript strings *)

Digits == {"0", "1", "2", "3", "4", "5", "6", "7", "8", "9"}

DigitVal(c) ==
    CASE c = "0" -> 0 [] c = "1" -> 1 [] c = "2" -> 2 [] c = "3" -> 3
      [] c = "4" -> 4 [] c = "5" -> 5 [] c = "6" -> 6 [] c = "7" -> 7
      [] c = "8" -> 8 [] c = "9" -> 9

WhiteSpace == {" ", "\t", "\n", "\r"}

\* s.slice(i - 1): the suffix of s from position i (1-based)
Drop(s, i) == IF i > Len(s) THEN <<>> ELSE SubSeq(s, i, Len(s))

RECURSIVE TrimStart(_)
TrimStart(s) == IF s # <<>> /\ Head(s) \in WhiteSpace THEN TrimStart(Tail(s)) ELSE s

RECURSIVE TrimEnd(_)
TrimEnd(s) == IF s # <<>> /\ s[Len(s)] \in WhiteSpace
              THEN TrimEnd(SubSeq(s, 1, Len(s) - 1)) ELSE s

Trim(s) == TrimEnd(TrimStart(s))

\* s.split(sep) for a one-character separator: always at least one part
RECURSIVE SplitFrom(_, _, _)
SplitFrom(s, sep, cur) ==
    IF s = <<>> THEN <<cur>>
    ELSE IF Head(s) = sep THEN <<cur>> \o SplitFrom(Tail(s), sep, <<>>)
    ELSE SplitFrom(Tail(s), sep, Append(cur, Head(s)))

Split(s, sep) == SplitFrom(s, sep, <<>>)

Includes(s, sub) ==
    \E i \in 1..(Len(s) - Len(sub) + 1) : SubSeq(s, i, i + Len(sub) - 1) = sub

LowerChar(c) ==
    CASE c = "A" -> "a" [] c = "D" -> "d" [] c = "E" -> "e" [] c = "I" -> "i"
      [] c = "M" -> "m" [] c = "T" -> "t" [] c = "C" -> "c" [] c = "O" -> "o"
      [] OTHER -> c

ToLowerCase(s) == [i \in 1..Len(s) |-> LowerChar(s[i])]

\* v.replace(/"/g, '')
StripQuotes(s) == SelectSeq(s, LAMBDA c : c # "\"")

\* number of leading decimal digits of s
RECURSIVE DigitRun(_)
DigitRun(s) == IF s # <<>> /\ Head(s) \in Digits THEN 1 + DigitRun(Tail(s)) ELSE 0

\* value of the first k characters of s, all decimal digits
RECURSIVE DigitsValue(_, _)
DigitsValue(s, k) == IF k = 0 THEN 0 ELSE DigitsValue(s, k - 1) * 10 + DigitVal(s[k])

RECURSIVE Pow10(_)
Pow10(k) == IF k = 0 THEN 1 ELSE 10 * Pow10(k - 1)

\* parseInt(str): leading white space, a sign, then the longest run of decimal
\* digits; what follows the digits is ignored; no digit at all gives NaN
parseInt(str) ==
    LET t    == TrimStart(str)
        neg  == t # <<>> /\ Head(t) = "-"
        body == IF t # <<>> /\ Head(t) \in {"-", "+"} THEN Tail(t) ELSE t
        k    == DigitRun(body)
    IN  IF k = 0 THEN NaN
        ELSE Num((IF neg THEN -1 ELSE 1) * DigitsValue(body, k))

\* parseFloat(str): leading white space, a sign, digits with an optional fraction
\* (exponents and "Infinity" do not occur in the inputs enumerated below)
parseFloat(str) ==
    LET t    == TrimStart(str)
        neg  == t # <<>> /\ Head(t) = "-"
        body == IF t # <<>> /\ Head(t) \in {"-", "+"} THEN Tail(t) ELSE t
        k    == DigitRun(body)
        rest == Drop(body, k + 1)
        f    == IF rest # <<>> /\ Head(rest) = "." THEN DigitRun(Tail(rest)) ELSE 0
        sign == IF neg THEN -1 ELSE 1
    IN  IF k = 0 /\ f = 0 THEN NaN
        ELSE Rat(sign * (DigitsValue(body, k) * Pow10(f)
                         + (IF f = 0 THEN 0 ELSE DigitsValue(Tail(rest), f))),
                 Pow10(f))

----------------------------------------------------------------------------
(* DataUploader.tsx: parsers *)

\* A calibration document as DOMParser delivers it: the text of the first
\* <calibrationDate> element, if any, and the <value> elements below <sensor> in
\* document order, each with its code attribute (if present) and text content.
\* empty is TRUE only for the empty string, the initial lastXmlData.
NoXml == [empty |-> TRUE, hasDate |-> FALSE, date |-> <<>>, values |-> <<>>]

XmlDoc(hasDate, date, values) ==
    [empty |-> FALSE, hasDate |-> hasDate, date |-> date, values |-> values]

Value(code, text) == [hasCode |-> TRUE, code |-> code, text |-> text]

ValueNoCode(text) == [hasCode |-> FALSE, code |-> <<>>, text |-> text]

\* Array.prototype.sort((a, b) => a.x - b.x): a stable sort, ascending in x
\* InsertByX that puts a point before the points of equal x: an unstable sort
RECURSIVE InsertByX_BeforeEqual(_, _)
InsertByX_BeforeEqual(sorted, p) ==
    IF sorted = <<>> THEN <<p>>
    ELSE LET last == sorted[Len(sorted)]
         IN  IF NumLe(p.x, last.x)
             THEN Append(InsertByX_BeforeEqual(SubSeq(sorted, 1, Len(sorted) - 1), p), last)
             ELSE Append(sorted, p)

RECURSIVE InsertByX(_, _)
InsertByX(sorted, p) ==
    IF sorted = <<>> THEN <<p>>
    ELSE LET last == sorted[Len(sorted)]
         IN  IF NumLt(p.x, last.x)
             THEN Append(InsertByX(SubSeq(sorted, 1, Len(sorted) - 1), p), last)
             ELSE Append(sorted, p)

RECURSIVE SortByX(_)
SortByX(points) ==
    IF points = <<>> THEN <<>>
    ELSE InsertByX(SortByX(SubSeq(points, 1, Len(points) - 1)), points[Len(points)])

\* code && value: the attribute is present and not "", the text is not ""
IsCalibrationEntry(element) ==
    element.hasCode /\ element.code # <<>> /\ element.text # <<>>

\* the point pushed for the element at 0-based position index - 1; name stands for
\* the string `Калибровка ${index}`
CalibrationPoint(element, index, divider) ==
    [x    |-> parseInt(element.code),
     y    |-> NumDiv(parseInt(element.text), divider),
     name |-> index]

\* parseCalibrationXML, with the volumeDivider its closure reads as a parameter
parseCalibrationXML(xmlText, divider) ==
    LET valueElements == xmlText.values
        kept == SelectSeq([i \in 1..Len(valueElements) |-> i],
                          LAMBDA i : IsCalibrationEntry(valueElements[i]))
        pushed ==
            [k \in 1..Len(kept) |->
                CalibrationPoint(valueElements[kept[k]], kept[k], divider)]
    IN  [data |-> SortByX(pushed),
         calibrationDate |-> IF xmlText.hasDate THEN xmlText.date ELSE <<>>]

Comma == ","

\* the keywords of the header test; the Cyrillic letters are spelled by name
HeaderKeywords ==
    { <<"t", "i", "m", "e">>,
      <<"d", "a", "t", "e">>,
      <<"cyr_ve", "cyr_er", "cyr_ie", "cyr_em", "cyr_ya">>,
      <<"cyr_de", "cyr_a", "cyr_te", "cyr_a">> }

hasHeader(firstLine) ==
    /\ Includes(firstLine, <<Comma>>)
    /\ \E kw \in HeaderKeywords : Includes(ToLowerCase(firstLine), kw)

\* line.split(',').map(v => v.trim().replace(/"/g, ''))
LineParts(line) ==
    LET raw == Split(line, Comma)
    IN  [i \in 1..Len(raw) |-> StripQuotes(Trim(raw[i]))]

\* the sample built from the data line at 0-based position index
RawPoint(line, index) ==
    LET parts == LineParts(line)
    IN  [x    |-> index,
         y    |-> OrElse(parseFloat(parts[2]), Num(0)),
         name |-> parts[1]]

\* parseRawDataCSV whose message carries the 0-based index of the data line
parseRawDataCSV_ZeroBasedRow(csvText) ==
    LET lines     == Split(Trim(csvText), "\n")
        dataLines == IF hasHeader(lines[1]) THEN Tail(lines) ELSE lines
        bad       == {i \in 1..Len(dataLines) : Len(LineParts(dataLines[i])) < 2}
    IN  IF bad # {}
        THEN LET first == CHOOSE i \in bad : \A j \in bad : i <= j
             IN  [ok |-> FALSE, row |-> first - 1, line |-> dataLines[first], data |-> <<>>]
        ELSE [ok   |-> TRUE, row |-> 0, line |-> <<>>,
              data |-> SelectSeq([i \in 1..Len(dataLines) |-> RawPoint(dataLines[i], i - 1)],
                                 LAMBDA point : ~IsNaN(point.y))]

\* parseRawDataCSV: ok with the samples, or the Error thrown for the first data
\* line with fewer than 2 parts (row is the number in the message)
parseRawDataCSV(csvText) ==
    LET lines     == Split(Trim(csvText), "\n")
        dataLines == IF hasHeader(lines[1]) THEN Tail(lines) ELSE lines
        bad       == {i \in 1..Len(dataLines) : Len(LineParts(dataLines[i])) < 2}
    IN  IF bad # {}
        THEN LET first == CHOOSE i \in bad : \A j \in bad : i <= j
             IN  [ok |-> FALSE, row |-> first, line |-> dataLines[first], data |-> <<>>]
        ELSE [ok   |-> TRUE, row |-> 0, line |-> <<>>,
              data |-> SelectSeq([i \in 1..Len(dataLines) |-> RawPoint(dataLines[i], i - 1)],
                                 LAMBDA point : ~IsNaN(point.y))]

----------------------------------------------------------------------------
(* ChartPage.tsx: what a render computes from the held state *)

\* the first i in 1..n-1 with sorted[i].x <= sensorCode <= sorted[i+1].x, or 0
RECURSIVE FirstBracket(_, _, _)
FirstBracket(sorted, sensorCode, i) ==
    IF i >= Len(sorted) THEN 0
    ELSE IF NumGe(sensorCode, sorted[i].x) /\ NumLe(sensorCode, sorted[i + 1].x) THEN i
    ELSE FirstBracket(sorted, sensorCode, i + 1)

\* convertSensorCodeToLiters without the clamp above the last point: the last
\* segment is extended
convertSensorCodeToLiters_NoUpperClamp(sensorCode) ==
    IF Len(calibrationData) = 0 THEN sensorCode
    ELSE LET sortedCalibration == SortByX(calibrationData)
             n == Len(sortedCalibration)
         IN  IF NumLe(sensorCode, sortedCalibration[1].x) THEN sortedCalibration[1].y
             ELSE LET i == FirstBracket(sortedCalibration, sensorCode, 1)
                      lowerPoint == IF i = 0 THEN sortedCalibration[1] ELSE sortedCalibration[i]
                      upperPoint == IF i = 0 THEN sortedCalibration[n] ELSE sortedCalibration[i + 1]
                      ratio == NumDiv(NumSub(sensorCode, lowerPoint.x),
                                      NumSub(upperPoint.x, lowerPoint.x))
                  IN  NumAdd(lowerPoint.y, NumMul(ratio, NumSub(upperPoint.y, lowerPoint.y)))

\* convertSensorCodeToLiters with the ratio applied to the upper volume instead of
\* the difference of the volumes
convertSensorCodeToLiters_WrongSlope(sensorCode) ==
    IF Len(calibrationData) = 0 THEN sensorCode
    ELSE LET sortedCalibration == SortByX(calibrationData)
             n == Len(sortedCalibration)
         IN  IF NumLe(sensorCode, sortedCalibration[1].x) THEN sortedCalibration[1].y
             ELSE IF NumGe(sensorCode, sortedCalibration[n].x) THEN sortedCalibration[n].y
             ELSE LET i == FirstBracket(sortedCalibration, sensorCode, 1)
                      lowerPoint == IF i = 0 THEN sortedCalibration[1] ELSE sortedCalibration[i]
                      upperPoint == IF i = 0 THEN sortedCalibration[n] ELSE sortedCalibration[i + 1]
                      ratio == NumDiv(NumSub(sensorCode, lowerPoint.x),
                                      NumSub(upperPoint.x, lowerPoint.x))
                  IN  NumAdd(lowerPoint.y, NumMul(ratio, upperPoint.y))

\* convertSensorCodeToLiters that answers 0 litres while no curve is held
convertSensorCodeToLiters_ZeroWhenEmpty(sensorCode) ==
    IF Len(calibrationData) = 0 THEN Num(0)
    ELSE LET sortedCalibration == SortByX(calibrationData)
             n == Len(sortedCalibration)
         IN  IF NumLe(sensorCode, sortedCalibration[1].x) THEN sortedCalibration[1].y
             ELSE IF NumGe(sensorCode, sortedCalibration[n].x) THEN sortedCalibration[n].y
             ELSE LET i == FirstBracket(sortedCalibration, sensorCode, 1)
                      lowerPoint == IF i = 0 THEN sortedCalibration[1] ELSE sortedCalibration[i]
                      upperPoint == IF i = 0 THEN sortedCalibration[n] ELSE sortedCalibration[i + 1]
                      ratio == NumDiv(NumSub(sensorCode, lowerPoint.x),
                                      NumSub(upperPoint.x, lowerPoint.x))
                  IN  NumAdd(lowerPoint.y, NumMul(ratio, NumSub(upperPoint.y, lowerPoint.y)))

\* convertSensorCodeToLiters without the clamp below the first point
convertSensorCodeToLiters_NoLowerClamp(sensorCode) ==
    IF Len(calibrationData) = 0 THEN sensorCode
    ELSE LET sortedCalibration == SortByX(calibrationData)
             n == Len(sortedCalibration)
         IN  IF NumGe(sensorCode, sortedCalibration[n].x) THEN sortedCalibration[n].y
             ELSE LET i == FirstBracket(sortedCalibration, sensorCode, 1)
                      lowerPoint == IF i = 0 THEN sortedCalibration[1] ELSE sortedCalibration[i]
                      upperPoint == IF i = 0 THEN sortedCalibration[n] ELSE sortedCalibration[i + 1]
                      ratio == NumDiv(NumSub(sensorCode, lowerPoint.x),
                                      NumSub(upperPoint.x, lowerPoint.x))
                  IN  NumAdd(lowerPoint.y, NumMul(ratio, NumSub(upperPoint.y, lowerPoint.y)))

convertSensorCodeToLiters(sensorCode) ==
    IF Len(calibrationData) = 0 THEN sensorCode
    ELSE LET sortedCalibration == SortByX(calibrationData)
             n == Len(sortedCalibration)
         IN  IF NumLe(sensorCode, sortedCalibration[1].x) THEN sortedCalibration[1].y
             ELSE IF NumGe(sensorCode, sortedCalibration[n].x) THEN sortedCalibration[n].y
             ELSE LET i == FirstBracket(sortedCalibration, sensorCode, 1)
                      lowerPoint == IF i = 0 THEN sortedCalibration[1] ELSE sortedCalibration[i]
                      upperPoint == IF i = 0 THEN sortedCalibration[n] ELSE sortedCalibration[i + 1]
                      ratio == NumDiv(NumSub(sensorCode, lowerPoint.x),
                                      NumSub(upperPoint.x, lowerPoint.x))
                  IN  NumAdd(lowerPoint.y, NumMul(ratio, NumSub(upperPoint.y, lowerPoint.y)))

\* convertSensorCodeToLiters as the program computes it, in doubles: the held
\* codes and volumes are the doubles nearest to the model's rationals, and the
\* subtractions, the division, the multiplication and the addition each round
convertSensorCodeToLitersIEEE(sensorCode) ==
    IF Len(calibrationData) = 0 THEN DoubleOf(sensorCode)
    ELSE LET sortedCalibration == SortByX(calibrationData)
             n == Len(sortedCalibration)
         IN  IF NumLe(sensorCode, sortedCalibration[1].x) THEN DoubleOf(sortedCalibration[1].y)
             ELSE IF NumGe(sensorCode, sortedCalibration[n].x) THEN DoubleOf(sortedCalibration[n].y)
             ELSE LET i == FirstBracket(sortedCalibration, sensorCode, 1)
                      lowerPoint == IF i = 0 THEN sortedCalibration[1] ELSE sortedCalibration[i]
                      upperPoint == IF i = 0 THEN sortedCalibration[n] ELSE sortedCalibration[i + 1]
                      ratio == DDiv(DSub(DoubleOf(sensorCode), DoubleOf(lowerPoint.x)),
                                    DSub(DoubleOf(upperPoint.x), DoubleOf(lowerPoint.x)))
                  IN  DAdd(DoubleOf(lowerPoint.y),
                           DMul(ratio, DSub(DoubleOf(upperPoint.y), DoubleOf(lowerPoint.y))))

\* parseDateTime that never throws
parseDateTime_NoThrow(dateTimeStr) == [ok |-> TRUE, time |-> <<NaN>>]

\* parseDateTime: throws (ok = FALSE) unless the text is two space-separated parts,
\* three dot-separated and three colon-separated fields.  The value of
\* new Date(year, month, day, hours, minutes, seconds).getTime() is kept as the six
\* constructor arguments; it is NaN when one of them is.
parseDateTime(dateTimeStr) ==
    LET parts == Split(Trim(dateTimeStr), " ")
    IN  IF Len(parts) # 2 THEN [ok |-> FALSE, time |-> <<>>]
        ELSE LET dateParts == Split(parts[1], ".")
                 timeParts == Split(parts[2], ":")
             IN  IF Len(dateParts) # 3 \/ Len(timeParts) # 3
                 THEN [ok |-> FALSE, time |-> <<>>]
                 ELSE LET day     == parseInt(dateParts[1])
                          month   == NumSub(parseInt(dateParts[2]), Num(1))
                          year    == parseInt(dateParts[3])
                          hours   == parseInt(timeParts[1])
                          minutes == parseInt(timeParts[2])
                          seconds == parseInt(timeParts[3])
                          args    == <<year, month, day, hours, minutes, seconds>>
                      IN  [ok   |-> TRUE,
                           time |-> IF \E k \in 1..6 : IsNaN(args[k]) THEN <<NaN>> ELSE args]

\* rawData.map(...).filter(item => item !== null): isNull marks the items for
\* which parseDateTime threw
rawDataWithTimestamp ==
    LET mapped == [k \in 1..Len(rawData) |->
                      LET item == rawData[k]
                          parsed == parseDateTime(item.name)
                      IN  IF parsed.ok
                          THEN [isNull       |-> FALSE,
                                x            |-> parsed.time,
                                y            |-> convertSensorCodeToLiters(item.y),
                                originalName |-> item.name]
                          ELSE [isNull |-> TRUE, x |-> <<>>, y |-> NaN,
                                originalName |-> <<>>]]
    IN  SelectSeq(mapped, LAMBDA item : ~item.isNull)

\* a.toFixed(1): the nearest multiple of 1/10, the larger in magnitude of two
\* equally near ones; kept as a number
toFixed1(a) ==
    IF IsNaN(a) THEN NaN
    ELSE LET n == (20 * AbsInt(a[1]) + a[2]) \div (2 * a[2])
         IN  Rat((IF a[1] < 0 THEN -1 ELSE 1) * n, 10)

\* the text 'Неизвестно', its letters spelled by name
Unknown == <<"cyr_en", "cyr_ie", "cyr_i", "cyr_ze", "cyr_ve", "cyr_ie", "cyr_es",
             "cyr_te", "cyr_en", "cyr_o">>

\* rawData.find(r => r.name === name): the first held sample of that name
RECURSIVE FindByName(_, _)
FindByName(name, k) ==
    IF k > Len(rawData) THEN [found |-> FALSE, y |-> NaN]
    ELSE IF rawData[k].name = name THEN [found |-> TRUE, y |-> rawData[k].y]
    ELSE FindByName(name, k + 1)

\* exportToCSV: the content handed to saveAs, before join('\n').  The header line is
\* kept as its divider note (present iff volumeDivider !== 1), a row as its four
\* comma-separated fields; type "calibration" stands for 'Калибровка' and
\* "measurement" for 'Измерение'.
exportToCSV ==
    LET view == rawDataWithTimestamp
        calibrationRows ==
            [k \in 1..Len(calibrationData) |->
                [type   |-> "calibration",
                 label  |-> IF calibrationDate # <<>> THEN calibrationDate ELSE Unknown,
                 code   |-> calibrationData[k].x,
                 volume |-> calibrationData[k].y]]
        measurementRows ==
            [k \in 1..Len(view) |->
                LET found == FindByName(view[k].originalName, 1)
                IN  [type   |-> "measurement",
                     label  |-> view[k].originalName,
                     code   |-> OrElse(IF found.found THEN found.y ELSE NaN, Num(0)),
                     volume |-> toFixed1(view[k].y)]]
    IN  [dividerInfo |-> chartVolumeDivider # Num(1),
         divider     |-> chartVolumeDivider,
         rows        |-> calibrationRows \o measurementRows]

\* list.reduce((sum, d) => sum + f(d), 0)
RECURSIVE NumSum(_)
NumSum(list) == IF list = <<>> THEN Num(0)
                ELSE NumAdd(NumSum(SubSeq(list, 1, Len(list) - 1)), list[Len(list)])

\* Math.max(...list), list non-empty
RECURSIVE NumMax(_)
NumMax(list) ==
    IF Len(list) = 1 THEN list[1]
    ELSE LET m == NumMax(Tail(list))
         IN  IF IsNaN(list[1]) \/ IsNaN(m) THEN NaN
             ELSE IF NumLt(m, list[1]) THEN list[1] ELSE m

\* calibrationData.reduce((closest, cal) => ...): no initial value, so the scan
\* starts from the first point
\* ClosestFrom that lets a later point of equal distance replace the closest so far
RECURSIVE ClosestFrom_LastWins(_, _, _)
ClosestFrom_LastWins(sensorCode, closest, k) ==
    IF k > Len(calibrationData) THEN closest
    ELSE LET cal == calibrationData[k]
         IN  IF NumLe(NumAbs(NumSub(cal.x, sensorCode)),
                      NumAbs(NumSub(closest.x, sensorCode)))
             THEN ClosestFrom_LastWins(sensorCode, cal, k + 1)
             ELSE ClosestFrom_LastWins(sensorCode, closest, k + 1)

RECURSIVE ClosestFrom(_, _, _)
ClosestFrom(sensorCode, closest, k) ==
    IF k > Len(calibrationData) THEN closest
    ELSE LET cal == calibrationData[k]
         IN  IF NumLt(NumAbs(NumSub(cal.x, sensorCode)),
                      NumAbs(NumSub(closest.x, sensorCode)))
             THEN ClosestFrom(sensorCode, cal, k + 1)
             ELSE ClosestFrom(sensorCode, closest, k + 1)

findClosestCalibration(sensorCode) ==
    IF Len(calibrationData) = 0 THEN [x |-> Num(0), y |-> Num(0)]
    ELSE LET c == ClosestFrom(sensorCode, calibrationData[1], 2)
         IN  [x |-> c.x, y |-> c.y]

rawWithCalibration ==
    [k \in 1..Len(rawData) |->
        LET raw == rawData[k]
            closest == findClosestCalibration(raw.y)
            rawInLiters == convertSensorCodeToLiters(raw.y)
        IN  [raw         |-> raw.y,
             rawInLiters |-> rawInLiters,
             calibration |-> closest.y,
             deviation   |-> NumAbs(NumSub(rawInLiters, closest.y))]]

\* the deviation of one raw sample as rawWithCalibration computes it, in doubles
deviationIEEE(raw) ==
    DAbs(DSub(convertSensorCodeToLitersIEEE(raw.y),
              DoubleOf(findClosestCalibration(raw.y).y)))

\* StatisticsPanel whose two averages are computed without the length tests: the
\* mean of nothing is 0 / 0
StatisticsPanel_NoFallback ==
    LET timestamped == rawDataWithTimestamp
        withCalibration == rawWithCalibration
        ys   == [k \in 1..Len(calibrationData) |-> calibrationData[k].y]
        rys  == [k \in 1..Len(timestamped) |-> timestamped[k].y]
        devs == [k \in 1..Len(withCalibration) |-> withCalibration[k].deviation]
    IN  [shown          |-> ~(Len(calibrationData) = 0 /\ Len(rawData) = 0),
         calibrationAvg |-> NumDiv(NumSum(ys), Num(Len(calibrationData))),
         rawAvgInLiters |-> NumDiv(NumSum(rys), Num(Len(timestamped))),
         avgDeviation   |-> IF Len(withCalibration) > 0
                            THEN NumDiv(NumSum(devs), Num(Len(withCalibration)))
                            ELSE Num(0),
         maxDeviation   |-> IF Len(withCalibration) > 0 THEN NumMax(devs) ELSE Num(0),
         sampleCount    |-> Len(rawData),
         calibrationPointCount |-> Len(calibrationData)]

\* StatisticsPanel: the values behind the six lines of the panel (before toFixed);
\* shown is FALSE when the panel shows the "load data" hint instead
StatisticsPanel ==
    LET timestamped == rawDataWithTimestamp
        withCalibration == rawWithCalibration
        ys   == [k \in 1..Len(calibrationData) |-> calibrationData[k].y]
        rys  == [k \in 1..Len(timestamped) |-> timestamped[k].y]
        devs == [k \in 1..Len(withCalibration) |-> withCalibration[k].deviation]
    IN  [shown          |-> ~(Len(calibrationData) = 0 /\ Len(rawData) = 0),
         calibrationAvg |-> IF Len(calibrationData) > 0
                            THEN NumDiv(NumSum(ys), Num(Len(calibrationData))) ELSE Num(0),
         rawAvgInLiters |-> IF Len(timestamped) > 0
                            THEN NumDiv(NumSum(rys), Num(Len(timestamped)))
                            ELSE Num(0),
         avgDeviation   |-> IF Len(withCalibration) > 0
                            THEN NumDiv(NumSum(devs), Num(Len(withCalibration)))
                            ELSE Num(0),
         maxDeviation   |-> IF Len(withCalibration) > 0 THEN NumMax(devs) ELSE Num(0),
         sampleCount    |-> Len(rawData),
         calibrationPointCount |-> Len(calibrationData)]

----------------------------------------------------------------------------
(* Inputs *)

\* bounds of the enumerated documents and of the reads in flight
MaxEntries == 3
MaxLines == 3
MaxPending == 1

MaxPoints == 4

\* <value> elements: three distinct codes, a repeated code with a real-number
\* body, an element without code attribute, an element with empty body
ValueElements ==
    { Value(<<"0">>, <<"0">>),
      Value(<<"1", "0", "0">>, <<"1", "0">>),
      Value(<<"2", "0", "0">>, <<"2", "0">>),
      Value(<<"1", "0", "0">>, <<"7", ".", "5">>),
      ValueNoCode(<<"9">>),
      Value(<<"5", "0">>, <<>>) }

RECURSIVE SeqsUpTo(_, _)
SeqsUpTo(S, n) ==
    IF n = 0 THEN {<<>>}
    ELSE LET shorter == SeqsUpTo(S, n - 1)
         IN  shorter \cup {Append(q, e) : q \in shorter, e \in S}

\* every calibration document of at most MaxEntries <value> elements
XmlDocs == {XmlDoc(FALSE, <<>>, vs) : vs \in SeqsUpTo(ValueElements, MaxEntries)}

\* every calibration document of 1..MaxPoints <value> elements that all have a
\* code attribute and a body: curves with codes repeated at the ends and mid-range
CurveDocs ==
    {XmlDoc(FALSE, <<>>, vs) :
        vs \in SeqsUpTo({e \in ValueElements : IsCalibrationEntry(e)}, MaxPoints) \ {<<>>}}

\* <value> elements of a curve with distinct codes and volumes that an integer
\* divider does not divide
KnotElements ==
    { Value(<<"1", "0", "0">>, <<"2">>),
      Value(<<"2", "0", "0">>, <<"5">>),
      Value(<<"3", "0", "0">>, <<"9">>) }

\* every calibration document of 1..MaxPoints of these elements, in any order
KnotDocs == {XmlDoc(FALSE, <<>>, vs) : vs \in SeqsUpTo(KnotElements, MaxPoints) \ {<<>>}}

\* one-row raw-series documents whose code is the code of one of these elements
KnotCsvDocs ==
    { <<"1", ".", "2", ".", "3", " ", "4", ":", "5", ":", "6">> \o <<Comma>> \o code :
        code \in { <<"1", "0", "0">>, <<"2", "0", "0">>, <<"3", "0", "0">> } }

\* the calibration files of the interactive session
XmlFiles ==
    { XmlDoc(TRUE, <<"2", "0", "2", "5">>,
             <<Value(<<"2", "0", "0">>, <<"2", "0">>), Value(<<"0">>, <<"0">>), Value(<<"1", "0", "0">>, <<"1", "0">>)>>),
      XmlDoc(FALSE, <<>>,
             <<Value(<<"2", "0", "0">>, <<"2", "0">>), Value(<<"1", "0", "0">>, <<"1", "0">>), ValueNoCode(<<"9">>),
               Value(<<"1", "0", "0">>, <<"7", ".", "5">>)>>),
      XmlDoc(TRUE, <<"2", "0", "2", "4">>, <<ValueNoCode(<<"9">>), Value(<<"5", "0">>, <<>>)>>) }

\* lines of a raw-series document: a good row, a row whose label is no date, a
\* row whose code is no number, a row of one field, a header
CsvLines ==
    { <<"1", ".", "2", ".", "3", " ", "4", ":", "5", ":", "6", ",", "1", "5", "0">>,
      <<"b", "a", "d", ",", "5", "0">>,
      <<"1", ".", "2", ".", "3", " ", "4", ":", "5", ":", "7", ",", "x">>,
      <<"o", "o", "p", "s">>,
      <<"D", "a", "t", "e", ",", "C", "o", "d", "e">> }

\* lines.join('\n')
RECURSIVE JoinLines(_)
JoinLines(lines) ==
    IF lines = <<>> THEN <<>>
    ELSE IF Len(lines) = 1 THEN lines[1]
    ELSE lines[1] \o <<"\n">> \o JoinLines(Tail(lines))

\* every raw-series document of 1..MaxLines lines
CsvDocs == {JoinLines(ls) : ls \in SeqsUpTo(CsvLines, MaxLines) \ {<<>>}}

\* the raw-series files of the interactive session
CsvFiles ==
    { <<"1", ".", "2", ".", "3", " ", "4", ":", "5", ":", "6", ",", "1", "5", "0", "\n", "b", "a", "d", ",", "5", "0", "\n", "1", ".", "2", ".", "3", " ", "4", ":", "5", ":", "7", ",", "x">>,
      <<"D", "a", "t", "e", ",", "C", "o", "d", "e", "\n", "1", ".", "2", ".", "3", " ", "4", ":", "5", ":", "6", ",", "1", "0", "0", "\n", "1", ".", "2", ".", "3", " ", "4", ":", "5", ":", "6", ",", "2", "5", "0">>,
      <<"1", ".", "2", ".", "3", " ", "4", ":", "5", ":", "6", ",", "5", "0", "\n", "o", "o", "p", "s">> }

\* one-row raw-series documents probing the curve below, at, between and above
\* its codes
ProbeCsvDocs ==
    { <<"1", ".", "2", ".", "3", " ", "4", ":", "5", ":", "6">> \o <<Comma>> \o code :
        code \in { <<"-", "5">>, <<"0">>, <<"5", "0">>, <<"1", "0", "0">>, <<"1", "0", "0", ".", "5">>, <<"1", "5", "0">>, <<"2", "0", "0">>, <<"2", "5", "0">> } }

\* what the user can leave in the divider field
DividerTexts == { <<"1", "0">>, <<"-", "2">>, <<"0">>, <<>> }

\* onChange of the divider field: parseFloat(e.target.value) || 1
DividerOf(text) == OrElse(parseFloat(text), Num(1))

----------------------------------------------------------------------------
(* DataUploader.tsx and ChartPage.tsx: state and handlers *)

\* the status line: kind names the message, count, divider and line its arguments
Status(kind, count, divider, line) ==
    [kind |-> kind, count |-> count, divider |-> divider, line |-> line]

NoStatus == Status("", 0, Num(0), <<>>)

\* a FileReader between readAsText and onload: the file's text and the
\* volumeDivider of the render whose handler created the reader
XmlReader(xmlText, divider) ==
    [kind |-> "xml", xml |-> xmlText, csv |-> <<>>, divider |-> divider]

CsvReader(csvText) ==
    [kind |-> "csv", xml |-> NoXml, csv |-> csvText, divider |-> Num(0)]

Range(q) == {q[i] : i \in DOMAIN q}

RemoveAt(q, i) == SubSeq(q, 1, i - 1) \o SubSeq(q, i + 1, Len(q))

\* useState initial values
Init ==
    /\ volumeDivider = Num(1)
    /\ lastXmlData = NoXml
    /\ uploadStatus = NoStatus
    /\ calibrationData = <<>>
    /\ calibrationDate = <<>>
    /\ chartVolumeDivider = Num(1)
    /\ rawData = <<>>
    /\ readers = <<>>

\* ChartPage.handleCalibrationDataChange
handleCalibrationDataChange(data, date, divider) ==
    /\ calibrationData' = data
    /\ calibrationDate' = date
    /\ chartVolumeDivider' = divider

\* DataUploader.handleDividerChange: parseCalibrationXML reads the volumeDivider
\* of the render that created the handler, i.e. the state before setVolumeDivider
handleDividerChange(newDivider) ==
    /\ volumeDivider' = newDivider
    /\ IF ~lastXmlData.empty
       THEN LET parsed == parseCalibrationXML(lastXmlData, volumeDivider)
            IN  /\ handleCalibrationDataChange(parsed.data, parsed.calibrationDate, newDivider)
                /\ uploadStatus' = Status("recalculated", 0, newDivider, <<>>)
       ELSE UNCHANGED <<calibrationData, calibrationDate, chartVolumeDivider, uploadStatus>>
    /\ UNCHANGED <<lastXmlData, rawData, readers>>

\* DataUploader.handleCalibrationUpload up to reader.readAsText(file), for a
\* chosen file (without a file the handler returns at once)
handleCalibrationUpload(file) ==
    /\ Len(readers) < MaxPending
    /\ uploadStatus' = Status("loadingCalibration", 0, Num(0), <<>>)
    /\ readers' = Append(readers, XmlReader(file, volumeDivider))
    /\ UNCHANGED <<volumeDivider, lastXmlData, calibrationData, calibrationDate,
                   chartVolumeDivider, rawData>>

\* reader.onload of handleCalibrationUpload without the data.length === 0 test: an
\* empty result is delivered like any other
CalibrationOnload_NoEmptyCheck(i) ==
    /\ readers[i].kind = "xml"
    /\ readers' = RemoveAt(readers, i)
    /\ LET xmlText == readers[i].xml
           parsed  == parseCalibrationXML(xmlText, readers[i].divider)
       IN  /\ handleCalibrationDataChange(parsed.data, parsed.calibrationDate,
                                          readers[i].divider)
           /\ uploadStatus' = Status("calibrationLoaded", Len(parsed.data), Num(0), <<>>)
           /\ lastXmlData' = xmlText
    /\ UNCHANGED <<volumeDivider, rawData>>

\* reader.onload of handleCalibrationUpload
CalibrationOnload(i) ==
    /\ readers[i].kind = "xml"
    /\ readers' = RemoveAt(readers, i)
    /\ LET xmlText == readers[i].xml
           parsed  == parseCalibrationXML(xmlText, readers[i].divider)
       IN  IF Len(parsed.data) = 0
           THEN /\ uploadStatus' = Status("errorNoCalibration", 0, Num(0), <<>>)
                /\ UNCHANGED <<calibrationData, calibrationDate, chartVolumeDivider,
                               lastXmlData>>
           ELSE /\ handleCalibrationDataChange(parsed.data, parsed.calibrationDate,
                                               readers[i].divider)
                /\ uploadStatus' = Status("calibrationLoaded", Len(parsed.data), Num(0), <<>>)
                /\ lastXmlData' = xmlText
    /\ UNCHANGED <<volumeDivider, rawData>>

\* DataUploader.handleRawDataUpload up to reader.readAsText(file), for a chosen
\* file
handleRawDataUpload(file) ==
    /\ Len(readers) < MaxPending
    /\ uploadStatus' = Status("loadingRawData", 0, Num(0), <<>>)
    /\ readers' = Append(readers, CsvReader(file))
    /\ UNCHANGED <<volumeDivider, lastXmlData, calibrationData, calibrationDate,
                   chartVolumeDivider, rawData>>

\* reader.onload of handleRawDataUpload; ChartPage.handleRawDataChange is setRawData
RawDataOnload(i) ==
    /\ readers[i].kind = "csv"
    /\ readers' = RemoveAt(readers, i)
    /\ LET parsed == parseRawDataCSV(readers[i].csv)
       IN  IF ~parsed.ok
           THEN /\ uploadStatus' = Status("errorRow", parsed.row, Num(0), parsed.line)
                /\ UNCHANGED rawData
           ELSE IF Len(parsed.data) = 0
           THEN /\ uploadStatus' = Status("errorNoRawData", 0, Num(0), <<>>)
                /\ UNCHANGED rawData
           ELSE /\ rawData' = parsed.data
                /\ uploadStatus' = Status("rawDataLoaded", Len(parsed.data), Num(0), <<>>)
    /\ UNCHANGED <<volumeDivider, lastXmlData, calibrationData, calibrationDate,
                   chartVolumeDivider>>

\* the user edits the divider field
DividerChanged == \E text \in DividerTexts : handleDividerChange(DividerOf(text))

\* the user picks a calibration file
CalibrationFileChosen == \E file \in XmlFiles : handleCalibrationUpload(file)

\* the user picks a raw-series file
RawFileChosen == \E file \in CsvFiles : handleRawDataUpload(file)

\* a calibration read completes; reads complete in any order
CalibrationLoaded == \E i \in DOMAIN readers : CalibrationOnload(i)

\* a raw-series read completes
RawDataLoaded == \E i \in DOMAIN readers : RawDataOnload(i)

\* setTimeout(() => setUploadStatus(''), ...): the timers are not counted and their
\* delays not modelled; the callback of an earlier message may run at any later
\* moment and clears whatever message is shown then
StatusTimeout ==
    /\ uploadStatus # NoStatus
    /\ uploadStatus' = NoStatus
    /\ UNCHANGED <<volumeDivider, lastXmlData, calibrationData, calibrationDate,
                   chartVolumeDivider, rawData, readers>>

Next ==
    \/ DividerChanged
    \/ CalibrationFileChosen
    \/ RawFileChosen
    \/ CalibrationLoaded
    \/ RawDataLoaded
    \/ StatusTimeout

\* the interactive session over the files XmlFiles and CsvFiles
Spec == Init /\ [][Next]_vars

\* One read in flight over every enumerated document: a calibration document read
\* while a one-row raw series is held, or a raw-series document read with no
\* calibration held.  The divider is any the field can have been left at.
InitParse ==
    /\ volumeDivider \in {DividerOf(text) : text \in DividerTexts}
    /\ lastXmlData = NoXml
    /\ uploadStatus \in {Status("loadingCalibration", 0, Num(0), <<>>),
                         Status("loadingRawData", 0, Num(0), <<>>)}
    /\ calibrationData = <<>>
    /\ calibrationDate = <<>>
    /\ chartVolumeDivider = Num(1)
    /\ \/ /\ uploadStatus.kind = "loadingCalibration"
          /\ rawData \in {parseRawDataCSV(doc).data : doc \in ProbeCsvDocs}
          /\ readers \in {<<XmlReader(doc, volumeDivider)>> : doc \in XmlDocs}
       \/ /\ uploadStatus.kind = "loadingRawData"
          /\ rawData = <<>>
          /\ readers \in {<<CsvReader(doc)>> : doc \in CsvDocs}

NextParse ==
    \/ CalibrationLoaded
    \/ RawDataLoaded

SpecParse == InitParse /\ [][NextParse]_vars

\* A raw-series read in flight over every enumerated document while nothing or a
\* one-row series from an earlier load is held; no calibration is held.
InitRaw ==
    /\ volumeDivider = Num(1)
    /\ lastXmlData = NoXml
    /\ uploadStatus = Status("loadingRawData", 0, Num(0), <<>>)
    /\ calibrationData = <<>>
    /\ calibrationDate = <<>>
    /\ chartVolumeDivider = Num(1)
    /\ rawData \in {<<>>} \cup {parseRawDataCSV(doc).data : doc \in ProbeCsvDocs}
    /\ readers \in {<<CsvReader(doc)>> : doc \in CsvDocs}

NextRaw == RawDataLoaded

SpecRaw == InitRaw /\ [][NextRaw]_vars

\* A calibration read in flight over every document of CurveDocs while a one-row
\* raw series is held; the divider field is at 1 or was left at 10.
InitCurve ==
    /\ volumeDivider \in {Num(1), DividerOf(<<"1", "0">>)}
    /\ lastXmlData = NoXml
    /\ uploadStatus = Status("loadingCalibration", 0, Num(0), <<>>)
    /\ calibrationData = <<>>
    /\ calibrationDate = <<>>
    /\ chartVolumeDivider = Num(1)
    /\ rawData \in {parseRawDataCSV(doc).data : doc \in ProbeCsvDocs}
    /\ readers \in {<<XmlReader(doc, volumeDivider)>> : doc \in CurveDocs}

NextCurve == CalibrationLoaded

SpecCurve == InitCurve /\ [][NextCurve]_vars

\* the file chosen second when two files are chosen in quick succession
RaceNewerXml ==
    XmlDoc(TRUE, <<"2", "0", "2", "5">>,
           <<Value(<<"2", "0", "0">>, <<"2", "0">>), Value(<<"0">>, <<"0">>), Value(<<"1", "0", "0">>, <<"1", "0">>)>>)

RaceNewerCsv ==
    <<"D", "a", "t", "e", ",", "C", "o", "d", "e", "\n", "1", ".", "2", ".", "3", " ", "4", ":", "5", ":", "6", ",", "1", "0", "0", "\n", "1", ".", "2", ".", "3", " ", "4", ":", "5", ":", "6", ",", "2", "5", "0">>

\* Two reads of one kind in flight, nothing held yet: the user chose a file (any
\* enumerated document) and then, before its read completed, the file
\* RaceNewerXml or RaceNewerCsv.  readers is in start order.
InitRace ==
    /\ volumeDivider = Num(1)
    /\ lastXmlData = NoXml
    /\ calibrationData = <<>>
    /\ calibrationDate = <<>>
    /\ chartVolumeDivider = Num(1)
    /\ rawData = <<>>
    /\ \/ /\ uploadStatus = Status("loadingCalibration", 0, Num(0), <<>>)
          /\ readers \in {<<XmlReader(older, volumeDivider),
                            XmlReader(RaceNewerXml, volumeDivider)>> : older \in XmlDocs}
       \/ /\ uploadStatus = Status("loadingRawData", 0, Num(0), <<>>)
          /\ readers \in {<<CsvReader(older), CsvReader(RaceNewerCsv)>> : older \in CsvDocs}

\* the two reads complete in either order
NextRace ==
    \/ CalibrationLoaded
    \/ RawDataLoaded

SpecRace == InitRace /\ [][NextRace]_vars

\* A calibration read in flight over every document of KnotDocs while a one-row
\* raw series with the code of a calibration point is held; the divider field is
\* at 1 or was left at 3 or at 10.
InitKnot ==
    /\ volumeDivider \in {Num(1), DividerOf(<<"3">>), DividerOf(<<"1", "0">>)}
    /\ lastXmlData = NoXml
    /\ uploadStatus = Status("loadingCalibration", 0, Num(0), <<>>)
    /\ calibrationData = <<>>
    /\ calibrationDate = <<>>
    /\ chartVolumeDivider = Num(1)
    /\ rawData \in {parseRawDataCSV(doc).data : doc \in KnotCsvDocs}
    /\ readers \in {<<XmlReader(doc, volumeDivider)>> : doc \in KnotDocs}

NextKnot == CalibrationLoaded

SpecKnot == InitKnot /\ [][NextKnot]_vars

----------------------------------------------------------------------------
(* Properties *)

\* the volumes of the retained document before any division
OriginalData == parseCalibrationXML(lastXmlData, Num(1)).data

\* the held curve is the retained document's points with every volume divided by d
HeldCurveDividedBy(d) ==
    /\ Len(calibrationData) = Len(OriginalData)
    /\ \A k \in 1..Len(calibrationData) :
          /\ calibrationData[k].x = OriginalData[k].x
          /\ calibrationData[k].y = NumDiv(OriginalData[k].y, d)

\* C1: non-compounding rescale.  Once a document is loaded, after a change of the
\* divisor to d (status "recalculated with divider d") every held volume is the
\* document's original volume divided by d, the divisor supplied last.
C1_NonCompoundingRescale ==
    (uploadStatus.kind = "recalculated" /\ NumLt(Num(0), uploadStatus.divider))
        => HeldCurveDividedBy(uploadStatus.divider)

\* C5: sorting invariant.  In every state the held curve is non-decreasing in
\* code, and points of equal code are in the order of the document (name is the
\* 1-based position of the point's element in the document).
C5_SortedStable ==
    \A i, j \in 1..Len(calibrationData) :
        i < j => /\ NumLe(calibrationData[i].x, calibrationData[j].x)
                 /\ calibrationData[i].x = calibrationData[j].x
                      => calibrationData[i].name < calibrationData[j].name

\* C5 witness: a curve recalculated from a document whose elements were out of
\* order and which repeats a code
C5_Witness ==
    /\ uploadStatus.kind = "recalculated"
    /\ Len(calibrationData) = 3
    /\ calibrationData[1].x = calibrationData[2].x
    /\ calibrationData[3].name = 1

\* C9: positive divisor.  The held curve is always the retained document divided
\* by a divisor that is strictly greater than 0.
C9_PositiveDivisor ==
    ~lastXmlData.empty =>
        \E d \in {Num(1)} \cup {DividerOf(text) : text \in DividerTexts} :
            NumLt(Num(0), d) /\ HeldCurveDividedBy(d)

\* the data lines of a raw-series document: its lines without the header line
DataLinesOf(csvText) ==
    LET lines == Split(Trim(csvText), "\n")
    IN  IF hasHeader(lines[1]) THEN Tail(lines) ELSE lines

\* the data line has a second field and that field parses as a number
HasNumericCode(line) ==
    Len(LineParts(line)) >= 2 /\ ~IsNaN(parseFloat(LineParts(line)[2]))

\* C6: row-count tolerance.  When a raw-series read completes on a document whose
\* data rows all have at least 2 fields, the rows whose second field is no number
\* are left out and the others are kept, in order: three data rows of which one
\* has a non-numeric second field give exactly 2 samples.
C6_RowCountTolerance ==
    [][\A i \in DOMAIN readers :
          (RawDataOnload(i) /\ \A line \in Range(DataLinesOf(readers[i].csv)) :
                                   Len(LineParts(line)) >= 2)
          => LET kept == SelectSeq(DataLinesOf(readers[i].csv), HasNumericCode)
             IN  kept # <<>> =>
                    /\ Len(rawData') = Len(kept)
                    /\ \A k \in 1..Len(kept) : rawData'[k].name = LineParts(kept[k])[1]]_vars

\* the <value> elements that have a code attribute and a non-empty body
EntriesOf(xmlText) ==
    {i \in 1..Len(xmlText.values) :
        xmlText.values[i].hasCode /\ xmlText.values[i].text # <<>>}

\* C10: calibration point emission.  After a calibration load the curve has exactly
\* one point for each element with a code attribute and a non-empty body; its
\* code is the attribute's integer value and its volume, before the division, is
\* the numeric value of the body, integer or real.
C10_PointEmission ==
    uploadStatus.kind = "calibrationLoaded" =>
        /\ Len(calibrationData) = Cardinality(EntriesOf(lastXmlData))
        /\ \A i \in EntriesOf(lastXmlData) :
              \E k \in 1..Len(calibrationData) :
                  /\ calibrationData[k].name = i
                  /\ calibrationData[k].x = parseInt(lastXmlData.values[i].code)
                  /\ NumMul(calibrationData[k].y, chartVolumeDivider)
                       = parseFloat(lastXmlData.values[i].text)

\* the first and the last point of the held curve
FirstPoint == calibrationData[1]

LastPoint == calibrationData[Len(calibrationData)]

\* C2 as claimed: clamp correctness.  For a non-empty curve, every held sample with
\* code <= firstPoint.code converts to the first point's volume and every held
\* sample with code >= lastPoint.code converts to the last point's volume.
C2_Clamp ==
    Len(calibrationData) > 0 =>
        \A k \in 1..Len(rawData) :
            /\ NumLe(rawData[k].y, FirstPoint.x)
                 => rawWithCalibration[k].rawInLiters = FirstPoint.y
            /\ NumGe(rawData[k].y, LastPoint.x)
                 => rawWithCalibration[k].rawInLiters = LastPoint.y

\* C2 amended: the lower clamp is tested first.  A sample with
\* code <= firstPoint.code converts to the first point's volume; a sample with
\* code >= lastPoint.code and code > firstPoint.code converts to the last point's
\* volume.
C2_ClampLowerFirst ==
    Len(calibrationData) > 0 =>
        \A k \in 1..Len(rawData) :
            /\ NumLe(rawData[k].y, FirstPoint.x)
                 => rawWithCalibration[k].rawInLiters = FirstPoint.y
            /\ (NumGe(rawData[k].y, LastPoint.x) /\ NumLt(FirstPoint.x, rawData[k].y))
                 => rawWithCalibration[k].rawInLiters = LastPoint.y

\* C2 witness: a sample above the range of a curve whose end volumes differ
C2_Witness ==
    /\ Len(calibrationData) >= 2
    /\ FirstPoint.y # LastPoint.y
    /\ \E k \in 1..Len(rawData) :
          /\ NumLt(LastPoint.x, rawData[k].y)
          /\ rawWithCalibration[k].rawInLiters = LastPoint.y

\* the consecutive pair <<i, i + 1>> of the held curve encloses the code
Encloses(i, code) ==
    NumLe(calibrationData[i].x, code) /\ NumLe(code, calibrationData[i + 1].x)

\* lo + (code - lo.code) / (hi.code - lo.code) * (hi.volume - lo.volume)
Interpolated(lo, hi, code) ==
    NumAdd(lo.y, NumMul(NumDiv(NumSub(code, lo.x), NumSub(hi.x, lo.x)),
                        NumSub(hi.y, lo.y)))

\* the codes and volumes of the held curve, as integers
CurveIs(points) ==
    /\ Len(calibrationData) = Len(points)
    /\ \A k \in 1..Len(points) :
          calibrationData[k].x = Num(points[k][1]) /\ calibrationData[k].y = Num(points[k][2])

\* C3: interior interpolation.  For a curve of at least two points, a held sample
\* with code strictly between the first and the last code converts to the linear
\* interpolation over the first consecutive pair that encloses it; (0,0),(100,10)
\* converts 50 to 5 and (0,0),(100,1),(200,2) converts 150 to 1.5.
C3_InteriorInterpolation ==
    Len(calibrationData) >= 2 =>
        \A k \in 1..Len(rawData) :
            LET code == rawData[k].y
                liters == rawWithCalibration[k].rawInLiters
            IN  /\ (NumLt(FirstPoint.x, code) /\ NumLt(code, LastPoint.x)) =>
                      LET i == CHOOSE i \in 1..(Len(calibrationData) - 1) :
                                   /\ Encloses(i, code)
                                   /\ \A j \in 1..(i - 1) : ~Encloses(j, code)
                      IN  liters = Interpolated(calibrationData[i], calibrationData[i + 1],
                                                code)
                /\ (CurveIs(<< <<0, 0>>, <<100, 10>> >>) /\ code = Num(50))
                      => liters = Num(5)
                /\ (CurveIs(<< <<0, 0>>, <<100, 1>>, <<200, 2>> >>) /\ code = Num(150))
                      => liters = Rat(3, 2)

\* C3 witness: the curve (0,0),(100,1),(200,2) with the sample 150 held
C3_Witness ==
    /\ CurveIs(<< <<0, 0>>, <<100, 1>>, <<200, 2>> >>)
    /\ Len(rawData) = 1
    /\ rawData[1].y = Num(150)
    /\ rawDataWithTimestamp[1].y = Rat(3, 2)

\* C4: empty-curve pass-through.  While no calibration point is held, every held
\* sample converts to its own code, in the statistics and in the timestamped view.
C4_EmptyCurvePassThrough ==
    Len(calibrationData) = 0 =>
        /\ \A k \in 1..Len(rawData) : rawWithCalibration[k].rawInLiters = rawData[k].y
        /\ \A k \in 1..Len(rawDataWithTimestamp) :
              \E j \in 1..Len(rawData) :
                  /\ rawData[j].name = rawDataWithTimestamp[k].originalName
                  /\ rawData[j].y = rawDataWithTimestamp[k].y

\* C4 witness: a raw series of non-zero codes loaded while no curve is held
C4_Witness ==
    /\ Len(calibrationData) = 0
    /\ uploadStatus.kind = "rawDataLoaded"
    /\ Len(rawDataWithTimestamp) >= 2
    /\ \A k \in 1..Len(rawDataWithTimestamp) : rawDataWithTimestamp[k].y = Num(150)

CountChar(s, c) == Cardinality({i \in DOMAIN s : s[i] = c})

\* the label has the shape 'D.M.Y H:M:S': one space, two dots before it and two
\* colons after it
HasDateShape(label) ==
    LET t == Trim(label)
    IN  /\ CountChar(t, " ") = 1
        /\ LET p == CHOOSE i \in DOMAIN t : t[i] = " "
           IN  /\ CountChar(SubSeq(t, 1, p - 1), ".") = 2
               /\ CountChar(SubSeq(t, p + 1, Len(t)), ":") = 2

\* C7: date-filter tolerance.  The timestamped view holds exactly the held samples
\* whose label has the date shape, in order; rawAverage is the mean of their
\* volumes (0 if none); every held sample, whatever its label, counts in
\* sampleCount and has a deviation entry computed from its code.
C7_DateFilterTolerance ==
    LET dated   == SelectSeq(rawData, LAMBDA r : HasDateShape(r.name))
        volumes == [k \in 1..Len(dated) |-> convertSensorCodeToLiters(dated[k].y)]
        view    == rawDataWithTimestamp
        stats   == StatisticsPanel
        entries == rawWithCalibration
    IN  /\ Len(view) = Len(dated)
        /\ \A k \in 1..Len(dated) :
              /\ view[k].originalName = dated[k].name
              /\ view[k].y = volumes[k]
        /\ NumMul(stats.rawAvgInLiters, Num(Len(dated))) =
              (IF dated = <<>> THEN Num(0) ELSE NumSum(volumes))
        /\ dated = <<>> => stats.rawAvgInLiters = Num(0)
        /\ stats.sampleCount = Len(rawData)
        /\ Len(entries) = Len(rawData)
        /\ \A k \in 1..Len(rawData) : entries[k].raw = rawData[k].y

\* C7 witness: a loaded series with a sample whose label is no date next to dated
\* samples, under a held curve
C7_Witness ==
    /\ Len(calibrationData) > 0
    /\ \E k \in 1..Len(rawData) : ~HasDateShape(rawData[k].name)
    /\ Len(rawDataWithTimestamp) >= 2
    /\ Len(rawDataWithTimestamp) < StatisticsPanel.sampleCount

\* |point.code - code|
Distance(point, code) == NumAbs(NumSub(point.x, code))

\* the nearest point of the held curve: minimum distance, the earliest in stored
\* order among equals
NearestIndex(code) ==
    CHOOSE i \in 1..Len(calibrationData) :
        /\ \A j \in 1..Len(calibrationData) :
              NumLe(Distance(calibrationData[i], code), Distance(calibrationData[j], code))
        /\ \A j \in 1..(i - 1) :
              NumLt(Distance(calibrationData[i], code), Distance(calibrationData[j], code))

\* C8: deviation statistics.  For a non-empty curve the deviation of every held
\* sample is |interpolate(code) - nearest.volume|, averageDeviation is the mean
\* and maxDeviation the maximum of the deviations of all held samples, and both
\* are 0 when no sample is held.
C8_DeviationStatistics ==
    Len(calibrationData) > 0 =>
        LET devs == [k \in 1..Len(rawData) |->
                        NumAbs(NumSub(convertSensorCodeToLiters(rawData[k].y),
                                      calibrationData[NearestIndex(rawData[k].y)].y))]
            stats   == StatisticsPanel
            entries == rawWithCalibration
        IN  /\ Len(entries) = Len(rawData)
            /\ \A k \in 1..Len(rawData) : entries[k].deviation = devs[k]
            /\ IF rawData = <<>>
               THEN /\ stats.avgDeviation = Num(0)
                    /\ stats.maxDeviation = Num(0)
               ELSE /\ NumMul(stats.avgDeviation, Num(Len(rawData))) = NumSum(devs)
                    /\ stats.maxDeviation \in Range(devs)
                    /\ \A d \in Range(devs) : NumLe(d, stats.maxDeviation)

\* C8 witness: a sample equally far from two points of different volume, and
\* deviations that are not all equal
C8_Witness ==
    /\ Len(calibrationData) > 0
    /\ \E k \in 1..Len(rawData) : \E i, j \in 1..Len(calibrationData) :
          /\ i < j
          /\ NearestIndex(rawData[k].y) = i
          /\ Distance(calibrationData[i], rawData[k].y) = Distance(calibrationData[j], rawData[k].y)
          /\ calibrationData[i].y # calibrationData[j].y
          /\ NumLt(Num(0), rawWithCalibration[k].deviation)
    /\ NumLt(StatisticsPanel.avgDeviation, StatisticsPanel.maxDeviation)

\* C11: an empty calibration result is an error that changes nothing.  When a
\* calibration read completes on a document without any element that has a code
\* attribute and a non-empty body, the status line shows the error and the held
\* curve, the calibration date, the divider ChartPage reports, the divider of the
\* input field and the retained document are unchanged; and no step at all, upload
\* or divider change, replaces a held non-empty curve by an empty one.
C11_EmptyResultChangesNothing ==
    [][/\ \A i \in DOMAIN readers :
             (CalibrationOnload(i) /\ EntriesOf(readers[i].xml) = {})
             => /\ uploadStatus'.kind = "errorNoCalibration"
                /\ UNCHANGED <<calibrationData, calibrationDate, chartVolumeDivider,
                               volumeDivider, lastXmlData>>
       /\ Len(calibrationData) > 0 => Len(calibrationData') > 0]_vars

\* C11 witness: the error is shown while a curve loaded earlier, with its date and
\* its document, is still held
C11_Witness ==
    /\ uploadStatus.kind = "errorNoCalibration"
    /\ Len(calibrationData) > 0
    /\ calibrationDate # <<>>
    /\ ~lastXmlData.empty
    /\ EntriesOf(lastXmlData) # {}

\* the 1-based positions, among the data lines, of the lines without a second
\* field (a line without a comma)
MalformedRows(csvText) ==
    {k \in 1..Len(DataLinesOf(csvText)) : CountChar(DataLinesOf(csvText)[k], Comma) = 0}

\* C12: malformed raw row.  When a raw-series read completes on a document with a
\* data line of fewer than 2 fields, with or without a skipped header line, no
\* sample is delivered: the held raw series is unchanged and the status line
\* shows the row error with the 1-based number of the first such line among the
\* data lines (a skipped header line is not counted) and the text of that line.
C12_MalformedRow ==
    [][\A i \in DOMAIN readers :
          (RawDataOnload(i) /\ MalformedRows(readers[i].csv) # {})
          => LET rows  == MalformedRows(readers[i].csv)
                 first == CHOOSE k \in rows : \A j \in rows : k <= j
             IN  /\ rawData' = rawData
                 /\ uploadStatus'.kind = "errorRow"
                 /\ uploadStatus'.count = first
                 /\ uploadStatus'.line = DataLinesOf(readers[i].csv)[first]]_vars

\* C12 witness: the row error names row 2 while a series loaded earlier is held
C12_Witness ==
    /\ uploadStatus.kind = "errorRow"
    /\ uploadStatus.count = 2
    /\ uploadStatus.line = <<"o", "o", "p", "s">>
    /\ Len(rawData) = 1
    /\ readers = <<>>

\* C13: export row completeness.  The exported table has, after its header, exactly
\* one "calibration" row per held calibration point and then exactly one
\* "measurement" row per held raw sample, and the row of a sample carries that
\* sample's own label, its sensor code and its interpolated volume (to one
\* decimal), also when samples share a label or a label is no parsable date.
C13_ExportRowCompleteness ==
    LET rows == exportToCSV.rows
        nCal == Len(calibrationData)
    IN  /\ Len(rows) = nCal + Len(rawData)
        /\ \A k \in 1..nCal : rows[k].type = "calibration"
        /\ \A k \in 1..Len(rawData) :
              /\ rows[nCal + k].type = "measurement"
              /\ rows[nCal + k].label = rawData[k].name
              /\ rows[nCal + k].code = rawData[k].y
              /\ rows[nCal + k].volume = toFixed1(convertSensorCodeToLiters(rawData[k].y))

\* the pair (lo, hi) of the held curve that the interpolation formula uses for a
\* code strictly inside the range of the curve
PairUsed(code) ==
    LET sorted == SortByX(calibrationData)
        i == FirstBracket(sorted, code, 1)
    IN  IF i = 0 THEN <<sorted[1], sorted[Len(sorted)]>> ELSE <<sorted[i], sorted[i + 1]>>

\* the codes of the held curve have a repetition strictly inside the range
HasMidRangeDuplicate ==
    \E i \in 2..(Len(calibrationData) - 2) :
        /\ calibrationData[i].x = calibrationData[i + 1].x
        /\ NumLt(FirstPoint.x, calibrationData[i].x)
        /\ NumLt(calibrationData[i].x, LastPoint.x)

\* C14: no division by zero in interpolation.  For a held non-empty curve, with or
\* without repeated codes, every held sample converts to a number (never NaN), and
\* for a sample strictly inside the range the pair (lo, hi) used by the formula
\* has lo.code < hi.code.
C14_NoDivisionByZero ==
    Len(calibrationData) > 0 =>
        \A k \in 1..Len(rawData) :
            LET code == rawData[k].y
            IN  /\ ~IsNaN(convertSensorCodeToLiters(code))
                /\ ~IsNaN(rawWithCalibration[k].rawInLiters)
                /\ (NumLt(FirstPoint.x, code) /\ NumLt(code, LastPoint.x))
                      => NumLt(PairUsed(code)[1].x, PairUsed(code)[2].x)

\* C14 witness: a sample whose code is the code repeated mid-range, converted by
\* interpolation over the pair below the repetition
C14_Witness ==
    /\ HasMidRangeDuplicate
    /\ Len(rawData) = 1
    /\ \E i \in 2..(Len(calibrationData) - 2) :
          /\ calibrationData[i].x = rawData[1].y
          /\ calibrationData[i + 1].x = rawData[1].y
          /\ calibrationData[i].y # calibrationData[i + 1].y
    /\ PairUsed(rawData[1].y)[2].x = rawData[1].y
    /\ ~IsNaN(rawDataWithTimestamp[1].y)

\* C15: stale upload results are discarded.  When a second file of the same kind
\* was chosen before the read of the first completed, then once both reads have
\* completed, in either order, the held data is that of the file chosen second
\* (RaceNewerXml: its curve and date; RaceNewerCsv: its samples).
C15_StaleResultsDiscarded ==
    readers = <<>> =>
        /\ uploadStatus.kind \in {"calibrationLoaded", "errorNoCalibration"}
              => /\ calibrationData = parseCalibrationXML(RaceNewerXml, Num(1)).data
                 /\ calibrationDate = RaceNewerXml.date
        /\ uploadStatus.kind \in {"rawDataLoaded", "errorRow", "errorNoRawData"}
              => rawData = parseRawDataCSV(RaceNewerCsv).data

\* the zero fallbacks and the counts of the statistics
ZeroFallbacks(stats) ==
    /\ Len(calibrationData) = 0 => stats.calibrationAvg = Num(0)
    /\ (\A k \in 1..Len(rawData) : ~HasDateShape(rawData[k].name))
          => stats.rawAvgInLiters = Num(0)
    /\ stats.sampleCount = Len(rawData)
    /\ stats.calibrationPointCount = Len(calibrationData)

\* C16 as claimed: statistics never fail and use zero fallbacks.  For every held
\* curve and series, an empty curve and an empty series included, the panel shows
\* statistics with calibrationAverage = 0 when the curve is empty, rawAverage = 0
\* when no sample has a parsable timestamp, sampleCount the number of held
\* samples and calibrationPointCount the number of held points.
C16_StatisticsZeroFallbacks ==
    LET stats == StatisticsPanel
    IN  stats.shown /\ ZeroFallbacks(stats)

\* C16 amended: when the curve or the series is non-empty the panel shows
\* statistics with these fallbacks and counts; when both are empty it shows the
\* hint to load data and no statistics.  Neither case raises.
C16_StatisticsWhenShown ==
    LET stats == StatisticsPanel
    IN  /\ stats.shown <=> (Len(calibrationData) > 0 \/ Len(rawData) > 0)
        /\ stats.shown => ZeroFallbacks(stats)

\* C16 witness: statistics over an empty curve and a series of which no sample has
\* a parsable timestamp
C16_Witness ==
    /\ Len(calibrationData) = 0
    /\ Len(rawData) >= 2
    /\ \A k \in 1..Len(rawData) : ~HasDateShape(rawData[k].name)
    /\ \E k \in 1..Len(rawData) : rawData[k].y # Num(0)
    /\ StatisticsPanel.shown
    /\ StatisticsPanel.calibrationAvg = Num(0)
    /\ StatisticsPanel.rawAvgInLiters = Num(0)
    /\ StatisticsPanel.sampleCount = Len(rawData)

\* C17: divider agreement across components.  In every state in which a curve is
\* held (and the dividers held are positive), the divider of DataUploader's input
\* field equals the divider ChartPage holds and displays, and the held curve is
\* the retained document with every volume divided by that divider.
C17_DividerAgreement ==
    (/\ Len(calibrationData) > 0
     /\ NumLt(Num(0), volumeDivider)
     /\ NumLt(Num(0), chartVolumeDivider))
    => /\ volumeDivider = chartVolumeDivider
       /\ HeldCurveDividedBy(chartVolumeDivider)

\* the codes of the held curve are pairwise distinct
DistinctCodes ==
    \A j, k \in 1..Len(calibrationData) :
        j # k => calibrationData[j].x # calibrationData[k].x

\* C18: exactness at calibration points.  For every non-empty held curve whose
\* codes are pairwise distinct and every point p of it, the interpolation of
\* p's code is the very number held as p's volume; and every raw sample whose
\* code is the code of a calibration point has deviation exactly 0.
C18_ExactAtCalibrationPoints ==
    (Len(calibrationData) > 0 /\ DistinctCodes)
    => /\ \A k \in 1..Len(calibrationData) :
              convertSensorCodeToLitersIEEE(calibrationData[k].x)
                  = DoubleOf(calibrationData[k].y)
       /\ \A j \in 1..Len(rawData) :
              (\E k \in 1..Len(calibrationData) : calibrationData[k].x = rawData[j].y)
                  => deviationIEEE(rawData[j]) = DZero

====
